---- MODULE Spec2Model ----
(***************************************************************************)
(* Little Man Computer: the Simulator (src/src/lmc.py, class Simulator),   *)
(* the Assembler (class Assembler) and the command line runner             *)
(* (src/src/cli.py, main).                                                 *)
(*                                                                         *)
(* Python values are represented as follows.                               *)
(*   list            a sequence; a 0-based index i reads element i + 1     *)
(*   self.mailboxes  a function on 0 .. NumMailboxes - 1                   *)
(*   str             a sequence of one-character strings                   *)
(*   None            the empty sequence (a token is never the empty str,   *)
(*                   `if label:` and `operand or 0` treat both alike)      *)
(*   int | None      <<>> for None and <<v>> for the integer v             *)
(***************************************************************************)
EXTENDS Integers, Sequences, FiniteSets, TLC

VARIABLES
    pc,              \* Simulator.pc
    acc,             \* Simulator.acc
    mailboxes,       \* Simulator.mailboxes
    halted,          \* Simulator.halted
    awaiting_input,  \* Simulator.awaiting_input
    op,              \* the public method called last
    arg,             \* its argument: <<value>>, the program, or <<>>
    result,          \* what it returned: None or <<v>>
    err,             \* the exception it raised, NoError when it returned
    entry,           \* history: halted and awaiting_input as that call began
    misuse,          \* history: step() was called while awaiting_input
    program,         \* cli.main: the machine code it runs
    inputs,          \* cli.main: the values typed at the INPUT> prompt
    outputs,         \* cli.main: the values printed
    cli_pc,          \* cli.main: where it is
    cli_err,         \* cli.main: the exception that ended it, NoError if none
    source,          \* Assembler.assemble: its argument
    asm_pc,          \* Assembler.assemble: the pass it has completed
    normalised_program,  \* assemble: what _normalise returned
    tokenised_lines,     \* assemble: what _tokenise returned
    unlabelled_lines,    \* assemble: what _unlabel_lines returned
    machine_code,        \* assemble: what it returned
    asm_err              \* assemble: the exception it raised

simvars == <<pc, acc, mailboxes, halted, awaiting_input>>
callvars == <<op, arg, result, err, entry, misuse>>
clivars == <<program, inputs, outputs, cli_pc, cli_err>>
asmvars == <<source, asm_pc, normalised_program, tokenised_lines,
             unlabelled_lines, machine_code, asm_err>>
vars == <<simvars, callvars, clivars, asmvars>>

----------------------------------------------------------------------------
(* Bounds of the model *)

\* A step is taken only while |acc| stays within MaxAcc.
MaxAcc == 2000

(* Program constants *)

NumMailboxes == 100
MaxInputValue == 999

None == <<>>
NoError == "none"
AssertionError == "AssertionError"
IndexError == "IndexError"

Min(a, b) == IF a <= b THEN a ELSE b

----------------------------------------------------------------------------
(* Simulator *)

\* The five fields of a Simulator as one value.
Sim == [pc |-> pc, acc |-> acc, mailboxes |-> mailboxes,
        halted |-> halted, awaiting_input |-> awaiting_input]

\* What a call leaves behind: the object, the return value, the exception.
Returned(s, r) == [sim |-> s, result |-> r, err |-> NoError]
Raised(s, e) == [sim |-> s, result |-> None, err |-> e]

\* Mutant of reset: range(99), the last mailbox is never created.
reset_one_short ==
    [pc |-> 0,
     acc |-> 0,
     mailboxes |-> [i \in 0 .. NumMailboxes - 2 |-> 0],
     halted |-> FALSE,
     awaiting_input |-> FALSE]

reset ==
    [pc |-> 0,
     acc |-> 0,
     mailboxes |-> [i \in 0 .. NumMailboxes - 1 |-> 0],
     halted |-> FALSE,
     awaiting_input |-> FALSE]

\* Mutant of load_program: the mailboxes past the program are cleared.
load_program_clearing(s, code) ==
    [s EXCEPT
        !.mailboxes = [i \in DOMAIN s.mailboxes |->
                         IF i < Min(Cardinality(DOMAIN s.mailboxes), Len(code))
                         THEN code[i + 1]
                         ELSE 0],
        !.halted = FALSE]

load_program(s, code) ==
    [s EXCEPT
        !.mailboxes = [i \in DOMAIN s.mailboxes |->
                         IF i < Min(Cardinality(DOMAIN s.mailboxes), Len(code))
                         THEN code[i + 1]
                         ELSE s.mailboxes[i]],
        !.halted = FALSE]

\* Mutant of load_input: a lower bound is asserted too.
load_input_unsigned(s, value) ==
    IF value <= MaxInputValue /\ value >= 0
    THEN Returned([s EXCEPT !.acc = value, !.awaiting_input = FALSE], None)
    ELSE Raised(s, AssertionError)

load_input(s, value) ==
    IF value <= MaxInputValue
    THEN Returned([s EXCEPT !.acc = value, !.awaiting_input = FALSE], None)
    ELSE Raised(s, AssertionError)

\* self.mailboxes[self.pc]: a list index is valid from -len to len - 1, and a
\* negative one counts from the end.
fetch(s) ==
    IF s.pc >= 0 THEN s.mailboxes[s.pc]
    ELSE s.mailboxes[s.pc + Cardinality(DOMAIN s.mailboxes)]

fetchable(s) ==
    /\ s.pc < Cardinality(DOMAIN s.mailboxes)
    /\ s.pc >= 0 - Cardinality(DOMAIN s.mailboxes)

\* Mutant of decode: 9xx is split like every other instruction.
decode_plain(instruction) ==
    <<instruction \div 100, instruction % 100>>

\* Mutant of _decode: quotient and remainder truncate towards zero, so the
\* operand of a negative value is negative.
decode_truncating(instruction) ==
    LET magnitude == IF instruction < 0 THEN -instruction ELSE instruction
        sign == IF instruction < 0 THEN -1 ELSE 1
        opcode == sign * (magnitude \div 100)
        operand == sign * (magnitude % 100)
    IN  IF opcode = 9 THEN <<opcode * 100 + operand, 0>>
        ELSE <<opcode, operand>>

\* Mutant of _decode: `if opcode >= 9`, every value from 900 up is an opcode.
decode_whole_from_900(instruction) ==
    LET opcode == instruction \div 100
        operand == instruction % 100
    IN  IF opcode >= 9 THEN <<opcode * 100 + operand, 0>>
        ELSE <<opcode, operand>>

\* divmod(instruction, 100) floors, as \div and % do.
decode(instruction) ==
    LET opcode == instruction \div 100
        operand == instruction % 100
    IN  IF opcode = 9 THEN <<opcode * 100 + operand, 0>>
        ELSE <<opcode, operand>>

\* Mutant of execute: BRP branches on acc > 0 only.
execute_brp_strict(s, opcode, operand) ==
    LET s1 == [s EXCEPT !.pc = s.pc + 1]
    IN  CASE opcode = 0 -> Returned([s1 EXCEPT !.halted = TRUE], None)
          [] opcode = 1 ->
                Returned([s1 EXCEPT !.acc = s1.acc + s1.mailboxes[operand]], None)
          [] opcode = 2 ->
                Returned([s1 EXCEPT !.acc = s1.acc - s1.mailboxes[operand]], None)
          [] opcode = 3 ->
                Returned([s1 EXCEPT !.mailboxes[operand] = s1.acc], None)
          [] opcode = 5 ->
                Returned([s1 EXCEPT !.acc = s1.mailboxes[operand]], None)
          [] opcode = 6 -> Returned([s1 EXCEPT !.pc = operand], None)
          [] opcode = 7 ->
                Returned(IF s1.acc = 0 THEN [s1 EXCEPT !.pc = operand] ELSE s1, None)
          [] opcode = 8 ->
                Returned(IF s1.acc > 0 THEN [s1 EXCEPT !.pc = operand] ELSE s1, None)
          [] opcode = 901 ->
                Returned([s1 EXCEPT !.awaiting_input = TRUE, !.acc = 0], None)
          [] opcode = 902 -> Returned(s1, <<s1.acc>>)
          [] OTHER -> Returned(s1, None)

\* Mutant of _execute: BRZ branches when acc <= 0.
execute_brz_nonpositive(s, opcode, operand) ==
    LET s1 == [s EXCEPT !.pc = s.pc + 1]
    IN  CASE opcode = 0 -> Returned([s1 EXCEPT !.halted = TRUE], None)
          [] opcode = 1 ->
                Returned([s1 EXCEPT !.acc = s1.acc + s1.mailboxes[operand]], None)
          [] opcode = 2 ->
                Returned([s1 EXCEPT !.acc = s1.acc - s1.mailboxes[operand]], None)
          [] opcode = 3 ->
                Returned([s1 EXCEPT !.mailboxes[operand] = s1.acc], None)
          [] opcode = 5 ->
                Returned([s1 EXCEPT !.acc = s1.mailboxes[operand]], None)
          [] opcode = 6 -> Returned([s1 EXCEPT !.pc = operand], None)
          [] opcode = 7 ->
                Returned(IF s1.acc <= 0 THEN [s1 EXCEPT !.pc = operand] ELSE s1, None)
          [] opcode = 8 ->
                Returned(IF s1.acc >= 0 THEN [s1 EXCEPT !.pc = operand] ELSE s1, None)
          [] opcode = 901 ->
                Returned([s1 EXCEPT !.awaiting_input = TRUE, !.acc = 0], None)
          [] opcode = 902 -> Returned(s1, <<s1.acc>>)
          [] OTHER -> Returned(s1, None)

\* Mutant of _execute: ADD keeps the accumulator to three digits.
execute_wrapping(s, opcode, operand) ==
    LET s1 == [s EXCEPT !.pc = s.pc + 1]
    IN  CASE opcode = 0 -> Returned([s1 EXCEPT !.halted = TRUE], None)
          [] opcode = 1 ->
                Returned([s1 EXCEPT !.acc = (s1.acc + s1.mailboxes[operand]) % 1000], None)
          [] opcode = 2 ->
                Returned([s1 EXCEPT !.acc = s1.acc - s1.mailboxes[operand]], None)
          [] opcode = 3 ->
                Returned([s1 EXCEPT !.mailboxes[operand] = s1.acc], None)
          [] opcode = 5 ->
                Returned([s1 EXCEPT !.acc = s1.mailboxes[operand]], None)
          [] opcode = 6 -> Returned([s1 EXCEPT !.pc = operand], None)
          [] opcode = 7 ->
                Returned(IF s1.acc = 0 THEN [s1 EXCEPT !.pc = operand] ELSE s1, None)
          [] opcode = 8 ->
                Returned(IF s1.acc >= 0 THEN [s1 EXCEPT !.pc = operand] ELSE s1, None)
          [] opcode = 901 ->
                Returned([s1 EXCEPT !.awaiting_input = TRUE, !.acc = 0], None)
          [] opcode = 902 -> Returned(s1, <<s1.acc>>)
          [] OTHER -> Returned(s1, None)

\* Mutant of _execute: LDA also stores the old accumulator in the mailbox.
execute_lda_swapping(s, opcode, operand) ==
    LET s1 == [s EXCEPT !.pc = s.pc + 1]
    IN  CASE opcode = 0 -> Returned([s1 EXCEPT !.halted = TRUE], None)
          [] opcode = 1 ->
                Returned([s1 EXCEPT !.acc = s1.acc + s1.mailboxes[operand]], None)
          [] opcode = 2 ->
                Returned([s1 EXCEPT !.acc = s1.acc - s1.mailboxes[operand]], None)
          [] opcode = 3 ->
                Returned([s1 EXCEPT !.mailboxes[operand] = s1.acc], None)
          [] opcode = 5 ->
                Returned([s1 EXCEPT !.acc = s1.mailboxes[operand],
                                 !.mailboxes[operand] = s1.acc], None)
          [] opcode = 6 -> Returned([s1 EXCEPT !.pc = operand], None)
          [] opcode = 7 ->
                Returned(IF s1.acc = 0 THEN [s1 EXCEPT !.pc = operand] ELSE s1, None)
          [] opcode = 8 ->
                Returned(IF s1.acc >= 0 THEN [s1 EXCEPT !.pc = operand] ELSE s1, None)
          [] opcode = 901 ->
                Returned([s1 EXCEPT !.awaiting_input = TRUE, !.acc = 0], None)
          [] opcode = 902 -> Returned(s1, <<s1.acc>>)
          [] OTHER -> Returned(s1, None)

\* Mutant of _execute: INP leaves the accumulator as it was.
execute_inp_keeping_acc(s, opcode, operand) ==
    LET s1 == [s EXCEPT !.pc = s.pc + 1]
    IN  CASE opcode = 0 -> Returned([s1 EXCEPT !.halted = TRUE], None)
          [] opcode = 1 ->
                Returned([s1 EXCEPT !.acc = s1.acc + s1.mailboxes[operand]], None)
          [] opcode = 2 ->
                Returned([s1 EXCEPT !.acc = s1.acc - s1.mailboxes[operand]], None)
          [] opcode = 3 ->
                Returned([s1 EXCEPT !.mailboxes[operand] = s1.acc], None)
          [] opcode = 5 ->
                Returned([s1 EXCEPT !.acc = s1.mailboxes[operand]], None)
          [] opcode = 6 -> Returned([s1 EXCEPT !.pc = operand], None)
          [] opcode = 7 ->
                Returned(IF s1.acc = 0 THEN [s1 EXCEPT !.pc = operand] ELSE s1, None)
          [] opcode = 8 ->
                Returned(IF s1.acc >= 0 THEN [s1 EXCEPT !.pc = operand] ELSE s1, None)
          [] opcode = 901 ->
                Returned([s1 EXCEPT !.awaiting_input = TRUE], None)
          [] opcode = 902 -> Returned(s1, <<s1.acc>>)
          [] OTHER -> Returned(s1, None)

\* Mutant of _execute: an opcode with no branch halts the machine.
execute_trapping(s, opcode, operand) ==
    LET s1 == [s EXCEPT !.pc = s.pc + 1]
    IN  CASE opcode = 0 -> Returned([s1 EXCEPT !.halted = TRUE], None)
          [] opcode = 1 ->
                Returned([s1 EXCEPT !.acc = s1.acc + s1.mailboxes[operand]], None)
          [] opcode = 2 ->
                Returned([s1 EXCEPT !.acc = s1.acc - s1.mailboxes[operand]], None)
          [] opcode = 3 ->
                Returned([s1 EXCEPT !.mailboxes[operand] = s1.acc], None)
          [] opcode = 5 ->
                Returned([s1 EXCEPT !.acc = s1.mailboxes[operand]], None)
          [] opcode = 6 -> Returned([s1 EXCEPT !.pc = operand], None)
          [] opcode = 7 ->
                Returned(IF s1.acc = 0 THEN [s1 EXCEPT !.pc = operand] ELSE s1, None)
          [] opcode = 8 ->
                Returned(IF s1.acc >= 0 THEN [s1 EXCEPT !.pc = operand] ELSE s1, None)
          [] opcode = 901 ->
                Returned([s1 EXCEPT !.awaiting_input = TRUE, !.acc = 0], None)
          [] opcode = 902 -> Returned(s1, <<s1.acc>>)
          [] OTHER -> Returned([s1 EXCEPT !.halted = TRUE], None)

\* Mutant of _execute: only the literal 0 halts, `if instruction == 0`.
execute_hlt_literal_only(s, opcode, operand) ==
    LET s1 == [s EXCEPT !.pc = s.pc + 1]
    IN  CASE opcode = 0 /\ operand = 0 -> Returned([s1 EXCEPT !.halted = TRUE], None)
          [] opcode = 1 ->
                Returned([s1 EXCEPT !.acc = s1.acc + s1.mailboxes[operand]], None)
          [] opcode = 2 ->
                Returned([s1 EXCEPT !.acc = s1.acc - s1.mailboxes[operand]], None)
          [] opcode = 3 ->
                Returned([s1 EXCEPT !.mailboxes[operand] = s1.acc], None)
          [] opcode = 5 ->
                Returned([s1 EXCEPT !.acc = s1.mailboxes[operand]], None)
          [] opcode = 6 -> Returned([s1 EXCEPT !.pc = operand], None)
          [] opcode = 7 ->
                Returned(IF s1.acc = 0 THEN [s1 EXCEPT !.pc = operand] ELSE s1, None)
          [] opcode = 8 ->
                Returned(IF s1.acc >= 0 THEN [s1 EXCEPT !.pc = operand] ELSE s1, None)
          [] opcode = 901 ->
                Returned([s1 EXCEPT !.awaiting_input = TRUE, !.acc = 0], None)
          [] opcode = 902 -> Returned(s1, <<s1.acc>>)
          [] OTHER -> Returned(s1, None)

execute(s, opcode, operand) ==
    LET s1 == [s EXCEPT !.pc = s.pc + 1]
    IN  CASE opcode = 0 -> Returned([s1 EXCEPT !.halted = TRUE], None)
          [] opcode = 1 ->
                Returned([s1 EXCEPT !.acc = s1.acc + s1.mailboxes[operand]], None)
          [] opcode = 2 ->
                Returned([s1 EXCEPT !.acc = s1.acc - s1.mailboxes[operand]], None)
          [] opcode = 3 ->
                Returned([s1 EXCEPT !.mailboxes[operand] = s1.acc], None)
          [] opcode = 5 ->
                Returned([s1 EXCEPT !.acc = s1.mailboxes[operand]], None)
          [] opcode = 6 -> Returned([s1 EXCEPT !.pc = operand], None)
          [] opcode = 7 ->
                Returned(IF s1.acc = 0 THEN [s1 EXCEPT !.pc = operand] ELSE s1, None)
          [] opcode = 8 ->
                Returned(IF s1.acc >= 0 THEN [s1 EXCEPT !.pc = operand] ELSE s1, None)
          [] opcode = 901 ->
                Returned([s1 EXCEPT !.awaiting_input = TRUE, !.acc = 0], None)
          [] opcode = 902 -> Returned(s1, <<s1.acc>>)
          [] OTHER -> Returned(s1, None)

\* Mutant of step: the halted flag is not consulted.
step_ignoring_halted(s) ==
    IF ~fetchable(s) THEN Raised(s, IndexError)
    ELSE LET d == decode(fetch(s)) IN execute(s, d[1], d[2])

\* Mutant of step: the fetch wraps round the mailboxes, `self.pc % 100`.
step_fetch_wrapping(s) ==
    IF ~s.halted
    THEN LET d == decode(s.mailboxes[s.pc % NumMailboxes])
         IN  execute(s, d[1], d[2])
    ELSE Returned(s, None)

\* Mutant of step: a halted machine still moves its program counter.
step_halted_advances(s) ==
    IF ~s.halted
    THEN IF ~fetchable(s) THEN Raised(s, IndexError)
         ELSE LET d == decode(fetch(s)) IN execute(s, d[1], d[2])
    ELSE Returned([s EXCEPT !.pc = s.pc + 1], None)

step(s) ==
    IF ~s.halted
    THEN IF ~fetchable(s) THEN Raised(s, IndexError)
         ELSE LET d == decode(fetch(s)) IN execute(s, d[1], d[2])
    ELSE Returned(s, None)

----------------------------------------------------------------------------
(* Strings: the str methods the Assembler calls *)

\* The ASCII characters str.strip() and str.split() take for whitespace:
\* space, \t, \n, \r, vertical tab (11), form feed (12) and the separators
\* 28 to 31.
VT == ""
FF == "\f"
FS == ""
GS == ""
RS == ""
US == ""
Whitespace == {" ", "\t", "\n", "\r", VT, FF, FS, GS, RS, US}
\* int() strips these only: the separators 28 to 31 are not among them.
IntWhitespace == {" ", "\t", "\n", "\r", VT, FF}
Digits == <<"0", "1", "2", "3", "4", "5", "6", "7", "8", "9">>
Lowercase == 
    <<"a", "b", "c", "d", "e", "f", "g", "h", "i", "j", "k", "l", "m", "n", "o", "p", "q", "r", "s", "t", "u", "v", "w", "x", "y", "z">>
Uppercase == 
    <<"A", "B", "C", "D", "E", "F", "G", "H", "I", "J", "K", "L", "M", "N", "O", "P", "Q", "R", "S", "T", "U", "V", "W", "X", "Y", "Z">>

SetMin(S) == CHOOSE x \in S : \A y \in S : x <= y
SetMax(S) == CHOOSE x \in S : \A y \in S : x >= y

\* s.replace(old, new), old and new one character each
replace(s, old, new) ==
    [i \in 1 .. Len(s) |-> IF s[i] = old THEN new ELSE s[i]]

\* s.strip()
strip(s) ==
    LET keep == {i \in 1 .. Len(s) : s[i] \notin Whitespace}
    IN  IF keep = {} THEN <<>> ELSE SubSeq(s, SetMin(keep), SetMax(keep))

\* s.startswith(c), c one character
startswith(s, c) == Len(s) >= 1 /\ s[1] = c

\* s.split(sep), sep one character: the pieces between the separators
RECURSIVE split(_, _)
split(s, sep) ==
    LET at == {i \in 1 .. Len(s) : s[i] = sep}
    IN  IF at = {} THEN <<s>>
        ELSE <<SubSeq(s, 1, SetMin(at) - 1)>>
             \o split(SubSeq(s, SetMin(at) + 1, Len(s)), sep)

\* s.split(): the maximal runs of characters that are not whitespace
RECURSIVE split_whitespace(_)
split_whitespace(s) ==
    LET t == strip(s)
        ws == {i \in 1 .. Len(t) : t[i] \in Whitespace}
    IN  IF t = <<>> THEN <<>>
        ELSE IF ws = {} THEN <<t>>
        ELSE <<SubSeq(t, 1, SetMin(ws) - 1)>>
             \o split_whitespace(SubSeq(t, SetMin(ws) + 1, Len(t)))

\* s.upper()
upper(s) ==
    [i \in 1 .. Len(s) |->
        IF \E k \in 1 .. Len(Lowercase) : Lowercase[k] = s[i]
        THEN Uppercase[CHOOSE k \in 1 .. Len(Lowercase) : Lowercase[k] = s[i]]
        ELSE s[i]]

\* s.isnumeric(), for ASCII text
isnumeric(s) ==
    /\ Len(s) >= 1
    /\ \A i \in 1 .. Len(s) : \E k \in 1 .. 10 : Digits[k] = s[i]

DigitValue(c) == (CHOOSE k \in 1 .. 10 : Digits[k] = c) - 1

RECURSIVE digits_value(_)
digits_value(s) ==
    IF Len(s) = 0 THEN 0
    ELSE 10 * digits_value(SubSeq(s, 1, Len(s) - 1)) + DigitValue(s[Len(s)])

\* The text int(s) reads once the whitespace around it is gone.
int_strip(s) ==
    LET keep == {i \in 1 .. Len(s) : s[i] \notin IntWhitespace}
    IN  IF keep = {} THEN <<>> ELSE SubSeq(s, SetMin(keep), SetMax(keep))

\* The digits of int(s): what follows the optional sign.
int_body(s) ==
    LET t == int_strip(s)
    IN  IF Len(t) >= 1 /\ t[1] \in {"+", "-"} THEN Tail(t) ELSE t

IsDigit(c) == \E k \in 1 .. 10 : Digits[k] = c

\* int(s) returns when s is, between whitespace, an optional sign and then
\* decimal digits, with single underscores allowed between digits (the
\* texts modelled hold no digit outside ASCII) ...
int_parses(s) ==
    LET b == int_body(s)
    IN  /\ Len(b) >= 1
        /\ \A i \in 1 .. Len(b) : IsDigit(b[i]) \/ b[i] = "_"
        /\ IsDigit(b[1]) /\ IsDigit(b[Len(b)])
        /\ \A i \in 1 .. Len(b) - 1 : ~(b[i] = "_" /\ b[i + 1] = "_")

\* ... and this is the value it returns.
int(s) ==
    LET magnitude == digits_value(SelectSeq(int_body(s), IsDigit))
    IN  IF int_strip(s)[1] = "-" THEN 0 - magnitude ELSE magnitude

\* str(n)
RECURSIVE str(_)
str(n) ==
    IF n < 0 THEN <<"-">> \o str(0 - n)
    ELSE IF n < 10 THEN <<Digits[n + 1]>>
    ELSE str(n \div 10) \o <<Digits[(n % 10) + 1]>>

----------------------------------------------------------------------------
(* Assembler *)

KeyError == "KeyError"
ValueError == "ValueError"
TypeError == "TypeError"

\* What a pass leaves behind: its return value, or the exception.
Ok(v) == [value |-> v, err |-> NoError]
Fail(e) == [value |-> None, err |-> e]

comment_delimeter == "#"

ADD == <<"A", "D", "D">>
SUB == <<"S", "U", "B">>
STA == <<"S", "T", "A">>
LDA == <<"L", "D", "A">>
BRA == <<"B", "R", "A">>
BRZ == <<"B", "R", "Z">>
BRP == <<"B", "R", "P">>
INP == <<"I", "N", "P">>
OUT == <<"O", "U", "T">>
HLT == <<"H", "L", "T">>
DAT == <<"D", "A", "T">>

instructions ==
    (ADD :> 100) @@ (SUB :> 200) @@ (STA :> 300) @@ (LDA :> 500) @@
    (BRA :> 600) @@ (BRZ :> 700) @@ (BRP :> 800) @@ (INP :> 901) @@
    (OUT :> 902) @@ (HLT :> 0) @@ (DAT :> None)

\* The body of the loop of _normalise for one line: the lines it appends.
normalise_line(raw) ==
    LET line == strip(replace(raw, "\t", " "))
    IN  IF line = <<>> \/ startswith(line, comment_delimeter) THEN <<>>
        ELSE <<strip(split(line, comment_delimeter)[1])>>

RECURSIVE Flatten(_)
Flatten(ss) == IF ss = <<>> THEN <<>> ELSE Head(ss) \o Flatten(Tail(ss))

normalise(text) ==
    LET raw == split(text, "\n")
    IN  Flatten([i \in 1 .. Len(raw) |-> normalise_line(raw[i])])

\* Mutant of _tokenise: `if len(tokens) <= 1: continue`, a line that is a
\* mnemonic alone is skipped.
tokenise_line_skipping_single(line) ==
    LET tokens == split_whitespace(line)
    IN  IF Len(tokens) <= 1 THEN <<>>
        ELSE IF Len(tokens) = 2 THEN
            IF upper(tokens[1]) \in DOMAIN instructions
            THEN << <<None, upper(tokens[1]), tokens[2]>> >>
            ELSE IF upper(tokens[2]) \in DOMAIN instructions
            THEN << <<tokens[1], upper(tokens[2]), None>> >>
            ELSE << <<None, None, None>> >>
        ELSE IF Len(tokens) = 3
        THEN << <<tokens[1], upper(tokens[2]), tokens[3]>> >>
        ELSE << <<None, None, None>> >>

\* Mutant of _tokenise: a line of more than three tokens is skipped.
tokenise_line_dropping_long(line) ==
    LET tokens == split_whitespace(line)
    IN  IF Len(tokens) = 0 THEN <<>>
        ELSE IF Len(tokens) = 1 THEN << <<None, upper(tokens[1]), None>> >>
        ELSE IF Len(tokens) = 2 THEN
            IF upper(tokens[1]) \in DOMAIN instructions
            THEN << <<None, upper(tokens[1]), tokens[2]>> >>
            ELSE IF upper(tokens[2]) \in DOMAIN instructions
            THEN << <<tokens[1], upper(tokens[2]), None>> >>
            ELSE << <<None, None, None>> >>
        ELSE IF Len(tokens) = 3
        THEN << <<tokens[1], upper(tokens[2]), tokens[3]>> >>
        ELSE <<>>

\* The body of the loop of _tokenise for one line: the tuples it appends.
tokenise_line(line) ==
    LET tokens == split_whitespace(line)
    IN  IF Len(tokens) = 0 THEN <<>>
        ELSE IF Len(tokens) = 1 THEN << <<None, upper(tokens[1]), None>> >>
        ELSE IF Len(tokens) = 2 THEN
            IF upper(tokens[1]) \in DOMAIN instructions
            THEN << <<None, upper(tokens[1]), tokens[2]>> >>
            ELSE IF upper(tokens[2]) \in DOMAIN instructions
            THEN << <<tokens[1], upper(tokens[2]), None>> >>
            ELSE << <<None, None, None>> >>
        ELSE IF Len(tokens) = 3
        THEN << <<tokens[1], upper(tokens[2]), tokens[3]>> >>
        ELSE << <<None, None, None>> >>

tokenise(lines) ==
    Flatten([i \in 1 .. Len(lines) |-> tokenise_line(lines[i])])

\* The dictionary `labels` after the first n lines: a later definition of a
\* label replaces an earlier one.
RECURSIVE labels_after(_, _)
labels_after(lines, n) ==
    IF n = 0 THEN <<>>
    ELSE LET before == labels_after(lines, n - 1)
             label == lines[n][1]
         IN  IF label # None
             THEN [k \in DOMAIN before \cup {label} |->
                     IF k = label THEN n - 1 ELSE before[k]]
             ELSE before

\* The first exception raised over the lines, or the list of the values.
Collect(outs) ==
    LET bad == {i \in 1 .. Len(outs) : outs[i].err # NoError}
    IN  IF bad = {} THEN Ok([i \in 1 .. Len(outs) |-> outs[i].value])
        ELSE Fail(outs[SetMin(bad)].err)

\* Mutant of _unlabel_lines: one pass, a line sees the labels defined so far.
unlabel_lines_one_pass(lines) ==
    Collect([i \in 1 .. Len(lines) |->
        LET labels == labels_after(lines, i)
            mnemonic == lines[i][2]
            operand == lines[i][3]
        IN  IF operand # None /\ ~isnumeric(operand) /\ mnemonic # DAT
            THEN IF operand \in DOMAIN labels
                 THEN Ok(<<mnemonic, str(labels[operand])>>)
                 ELSE Fail(KeyError)
            ELSE Ok(<<mnemonic, operand>>)])

\* Mutant of _unlabel_lines: the operand of DAT is resolved like any other.
unlabel_lines_dat_too(lines) ==
    LET labels == labels_after(lines, Len(lines))
    IN  Collect([i \in 1 .. Len(lines) |->
            LET mnemonic == lines[i][2]
                operand == lines[i][3]
            IN  IF operand # None /\ ~isnumeric(operand)
                THEN IF operand \in DOMAIN labels
                     THEN Ok(<<mnemonic, str(labels[operand])>>)
                     ELSE Fail(KeyError)
                ELSE Ok(<<mnemonic, operand>>)])

\* Mutant of _unlabel_lines: labels.get(operand, 0), a label that is not
\* defined resolves to mailbox 0.
unlabel_lines_default(lines) ==
    LET labels == labels_after(lines, Len(lines))
    IN  Collect([i \in 1 .. Len(lines) |->
            LET mnemonic == lines[i][2]
                operand == lines[i][3]
            IN  IF operand # None /\ ~isnumeric(operand) /\ mnemonic # DAT
                THEN IF operand \in DOMAIN labels
                     THEN Ok(<<mnemonic, str(labels[operand])>>)
                     ELSE Ok(<<mnemonic, str(0)>>)
                ELSE Ok(<<mnemonic, operand>>)])

unlabel_lines(lines) ==
    LET labels == labels_after(lines, Len(lines))
    IN  Collect([i \in 1 .. Len(lines) |->
            LET mnemonic == lines[i][2]
                operand == lines[i][3]
            IN  IF operand # None /\ ~isnumeric(operand) /\ mnemonic # DAT
                THEN IF operand \in DOMAIN labels
                     THEN Ok(<<mnemonic, str(labels[operand])>>)
                     ELSE Fail(KeyError)
                ELSE Ok(<<mnemonic, operand>>)])

\* int(x) as the code generator calls it: x is a str, None or the int 0.
int_of(operand) ==
    IF operand = None THEN Fail(TypeError)
    ELSE IF int_parses(operand) THEN Ok(int(operand))
    ELSE Fail(ValueError)

\* The body of the loop of _generate_machine_code for one line.
generate_line(mnemonic, operand) ==
    IF mnemonic = DAT
    THEN IF operand = None THEN Ok(0) ELSE int_of(operand)
    ELSE IF mnemonic \notin DOMAIN instructions THEN Fail(KeyError)
    ELSE LET opcode == instructions[mnemonic]
         IN  IF opcode \in {100, 200, 300, 500, 600, 700, 800}
             THEN LET n == int_of(operand)
                  IN  IF n.err # NoError THEN n ELSE Ok(opcode + n.value)
             ELSE Ok(opcode)

generate_machine_code(lines) ==
    Collect([i \in 1 .. Len(lines) |-> generate_line(lines[i][1], lines[i][2])])

assemble(text) ==
    LET unlabelled == unlabel_lines(tokenise(normalise(text)))
    IN  IF unlabelled.err # NoError THEN unlabelled
        ELSE generate_machine_code(unlabelled.value)

----------------------------------------------------------------------------
(* Machine code programs handed to load_program *)

\* INP; OUT; HLT
Echo == <<901, 902, 0>>
\* Every instruction family, branching forward only; cell 9 is both the data
\* cell of STA/ADD/SUB/LDA and an instruction on the path.
\*  0 INP     1 STA 9   2 ADD 9   3 OUT     4 BRZ 6   5 BRP 8   6 SUB 9
\*  7 LDA 9   8 BRA 10  9 (4xx)  10 (9xx)  11 (>999) 12 DAT 42 13 INP  14 OUT
Tour == <<901, 309, 109, 902, 706, 808, 209, 509, 610, 400, 950, 1005, 42, 901, 902>>
\* exactly as many cells as there are mailboxes, and one more
Full100 == [i \in 1 .. NumMailboxes |-> 902]
Over101 == [i \in 1 .. NumMailboxes + 1 |-> IF i = NumMailboxes + 1 THEN 7 ELSE 400]

\* STA 0 at cell 0, which stores over itself, and zeros in every other cell
SelfStore == [i \in 1 .. NumMailboxes |-> IF i = 1 THEN 300 ELSE 0]

\* Cells that are not three-digit values: negative, and above 999
Unclamped ==
    [i \in 1 .. NumMailboxes |->
        IF i = 1 THEN -1 ELSE IF i = 2 THEN -150 ELSE IF i = 3 THEN 1998 ELSE 0]

\* Cells past 999 whose quotient by 100 is 902 and 901: _decode returns
\* these quotients as the opcode, and _execute takes them for OUT and INP.
Aliased ==
    [i \in 1 .. NumMailboxes |->
        IF i = 1 THEN 90250 ELSE IF i = 2 THEN 90100 ELSE 0]

Programs == {Echo, Tour, Full100, Over101, SelfStore, Unclamped, Aliased}

Inputs == {-1, 0, MaxInputValue, MaxInputValue + 1}

----------------------------------------------------------------------------
(* The Simulator driven through its public methods, in any order *)

Install(s) ==
    /\ pc' = s.pc
    /\ acc' = s.acc
    /\ mailboxes' = s.mailboxes
    /\ halted' = s.halted
    /\ awaiting_input' = s.awaiting_input

Call(name, a, out) ==
    /\ Install(out.sim)
    /\ op' = name
    /\ arg' = a
    /\ result' = out.result
    /\ err' = out.err
    /\ entry' = [halted |-> halted, awaiting_input |-> awaiting_input]

\* Simulator(): __init__ calls reset.
Constructed ==
    /\ pc = reset.pc
    /\ acc = reset.acc
    /\ mailboxes = reset.mailboxes
    /\ halted = reset.halted
    /\ awaiting_input = reset.awaiting_input
    /\ op = "__init__"
    /\ arg = <<>>
    /\ result = None
    /\ err = NoError
    /\ entry = [halted |-> FALSE, awaiting_input |-> FALSE]
    /\ misuse = FALSE

CliIdle ==
    /\ program = <<>>
    /\ inputs = <<>>
    /\ outputs = <<>>
    /\ cli_pc = "idle"
    /\ cli_err = NoError

AsmIdle ==
    /\ source = <<>>
    /\ asm_pc = "idle"
    /\ normalised_program = None
    /\ tokenised_lines = None
    /\ unlabelled_lines = None
    /\ machine_code = None
    /\ asm_err = NoError

Init == Constructed /\ CliIdle /\ AsmIdle

Reset ==
    /\ Call("reset", <<>>, Returned(reset, None))
    /\ UNCHANGED <<misuse, clivars, asmvars>>

LoadProgram ==
    \E code \in Programs :
        /\ Call("load_program", code, Returned(load_program(Sim, code), None))
        /\ UNCHANGED <<misuse, clivars, asmvars>>

LoadInput ==
    \E value \in Inputs :
        /\ Call("load_input", <<value>>, load_input(Sim, value))
        /\ UNCHANGED <<misuse, clivars, asmvars>>

Step ==
    LET out == step(Sim)
    IN  /\ out.sim.acc \in -MaxAcc .. MaxAcc
        /\ Call("step", <<>>, out)
        /\ misuse' = (misuse \/ awaiting_input)
        /\ UNCHANGED <<clivars, asmvars>>

Next == Reset \/ LoadProgram \/ LoadInput \/ Step

Spec == Init /\ [][Next]_vars

----------------------------------------------------------------------------
(* cli.main from the point where the program has been assembled: it builds *)
(* a Simulator, loads the program and steps it until it halts, printing    *)
(* every output and reading a value whenever the machine asks for one.     *)

\* INP; STA 8; LDA 8; OUT; SUB 9; STA 8; BRP 2; HLT; DAT; DAT 1
Countdown == <<901, 308, 508, 902, 209, 308, 802, 0, 0, 1>>

CliPrograms == {Countdown, Echo, Tour, Full100}

\* The values typed at the prompt.
MaxCliInput == 5
CliInputs == (-1 .. MaxCliInput) \cup {MaxInputValue + 1}

EOFError == "EOFError"

\* The lines typed at the prompt: the decimal text of a value, a value with
\* a space before it or an underscore in it, and lines int() rejects.
CliLines ==
    {str(x) : x \in CliInputs}
    \cup {<<" ", "3">>, <<"1", "_", "0">>,
          <<"a", "b", "c">>, <<"3", ".", "5">>, <<>>}

InitCli ==
    /\ Constructed
    /\ AsmIdle
    /\ program \in CliPrograms
    /\ inputs = <<>>
    /\ outputs = <<>>
    /\ cli_pc = "start"
    /\ cli_err = NoError

\* sim.load_program(program)
CliStart ==
    /\ cli_pc = "start"
    /\ Call("load_program", program, Returned(load_program(Sim, program), None))
    /\ cli_pc' = "loop"
    /\ UNCHANGED <<misuse, program, inputs, outputs, cli_err, asmvars>>

Printed(out) ==
    IF out.result # None THEN Append(outputs, out.result[1]) ELSE outputs

\* After the body of the loop: the banner is printed and the loop is left
\* when the machine has halted.
AfterBody(s) == IF s.halted THEN "exited" ELSE "loop"

\* One pass of the while loop in which step() raises: main dies.
CliStepRaises ==
    LET out == step(Sim)
    IN  /\ cli_pc = "loop" /\ ~halted
        /\ out.err # NoError
        /\ Call("step", <<>>, out)
        /\ cli_pc' = "crashed"
        /\ cli_err' = out.err
        /\ UNCHANGED <<misuse, program, inputs, outputs, asmvars>>

\* One pass in which the machine does not ask for input.
CliStepOnly ==
    LET out == step(Sim)
    IN  /\ cli_pc = "loop" /\ ~halted
        /\ out.err = NoError
        /\ ~out.sim.awaiting_input
        /\ Call("step", <<>>, out)
        /\ outputs' = Printed(out)
        /\ cli_pc' = AfterBody(out.sim)
        /\ UNCHANGED <<misuse, program, inputs, cli_err, asmvars>>

\* The first half of a pass in which the machine asks for input: step() has
\* returned, its output is printed, and main waits in input().
CliStepPrompt ==
    LET out == step(Sim)
    IN  /\ cli_pc = "loop" /\ ~halted
        /\ out.err = NoError
        /\ out.sim.awaiting_input
        /\ Call("step", <<>>, out)
        /\ outputs' = Printed(out)
        /\ cli_pc' = "prompt"
        /\ UNCHANGED <<misuse, program, inputs, cli_err, asmvars>>

\* A line that int() accepts arrives: x is loaded, and the pass ends.
CliInput ==
    /\ cli_pc = "prompt"
    /\ \E line \in CliLines :
          /\ int_parses(line)
          /\ LET x == int(line)
                 loaded == load_input(Sim, x)
             IN  /\ Call("load_input", <<x>>, loaded)
                 /\ inputs' = Append(inputs, x)
                 /\ cli_pc' = IF loaded.err # NoError THEN "crashed"
                              ELSE AfterBody(loaded.sim)
                 /\ cli_err' = loaded.err
    /\ UNCHANGED <<misuse, program, outputs, asmvars>>

\* A line that int() rejects arrives: main dies before load_input is called.
CliInputRejected ==
    /\ cli_pc = "prompt"
    /\ \E line \in CliLines : ~int_parses(line)
    /\ cli_pc' = "crashed"
    /\ cli_err' = ValueError
    /\ UNCHANGED <<simvars, callvars, program, inputs, outputs, asmvars>>

\* The terminal is closed at the prompt: input() raises.
CliInputClosed ==
    /\ cli_pc = "prompt"
    /\ cli_pc' = "crashed"
    /\ cli_err' = EOFError
    /\ UNCHANGED <<simvars, callvars, program, inputs, outputs, asmvars>>

\* The steps main takes by itself, and those that wait for the terminal.
CliRuns == CliStart \/ CliStepRaises \/ CliStepOnly \/ CliStepPrompt

NextCli == CliRuns \/ CliInput \/ CliInputRejected \/ CliInputClosed

\* main runs on its own until it exits, dies or waits at the prompt; nothing
\* makes a line arrive there.
SpecCli == InitCli /\ [][NextCli]_vars /\ WF_vars(CliRuns)

----------------------------------------------------------------------------
(* Assembler.assemble applied to a source text, one pass at a time *)

\* The lines a source text is made of.
SrcLines == {
    \* BRA L: a reference to L
    <<"B", "R", "A", " ", "L">>,
    \* L DAT 1: a definition of L
    <<"L", " ", "D", "A", "T", " ", "1">>,
    \* DAT L: DAT with a label as operand
    <<"D", "A", "T", " ", "L">>,
    \* 7 STA 7: a label that is a number
    <<"7", " ", "S", "T", "A", " ", "7">>,
    \* STA M: a reference to M, which no line defines
    <<"S", "T", "A", " ", "M">>,
    \* \tout # x: a tab, a lower case mnemonic, a trailing comment
    <<"\t", "o", "u", "t", " ", "#", " ", "x">>,
    \* # c: a comment
    <<"#", " ", "c">>,
    \* : an empty line
    <<>>,
    \* a b c d: four tokens
    <<"a", " ", "b", " ", "c", " ", "d">>,
    \* L ADD 150: another definition of L, an operand past 99
    <<"L", " ", "A", "D", "D", " ", "1", "5", "0">>,
    \* DAT 1000: a datum past 999
    <<"D", "A", "T", " ", "1", "0", "0", "0">>,
    \* LDA: an operand is missing
    <<"L", "D", "A">>,
    \* x DAT: a label and DAT with no operand
    <<"x", " ", "D", "A", "T">>,
    \* ADD, a form feed, 5: whitespace that is not a space or a tab
    <<"A", "D", "D", FF, "5">>,
    \* INP between a record separator and a vertical tab
    <<RS, "I", "N", "P", VT>>,
    \* DAT 1_0: an underscore between the digits
    <<"D", "A", "T", " ", "1", "_", "0">>
}

\* A source text has at most MaxLines lines.
MaxLines == 3

RECURSIVE JoinLines(_)
JoinLines(ls) ==
    IF Len(ls) = 0 THEN <<>>
    ELSE IF Len(ls) = 1 THEN ls[1]
    ELSE ls[1] \o <<"\n">> \o JoinLines(Tail(ls))

Sources ==
    {JoinLines(ls) : ls \in UNION {[1 .. n -> SrcLines] : n \in 0 .. MaxLines}}

InitAsm ==
    /\ Constructed
    /\ CliIdle
    /\ source \in Sources
    /\ asm_pc = "start"
    /\ normalised_program = None
    /\ tokenised_lines = None
    /\ unlabelled_lines = None
    /\ machine_code = None
    /\ asm_err = NoError

Normalise ==
    /\ asm_pc = "start"
    /\ normalised_program' = normalise(source)
    /\ asm_pc' = "normalised"
    /\ UNCHANGED <<source, tokenised_lines, unlabelled_lines, machine_code, asm_err>>
    /\ UNCHANGED <<simvars, callvars, clivars>>

Tokenise ==
    /\ asm_pc = "normalised"
    /\ tokenised_lines' = tokenise(normalised_program)
    /\ asm_pc' = "tokenised"
    /\ UNCHANGED <<source, normalised_program, unlabelled_lines, machine_code, asm_err>>
    /\ UNCHANGED <<simvars, callvars, clivars>>

Unlabel ==
    LET out == unlabel_lines(tokenised_lines)
    IN  /\ asm_pc = "tokenised"
        /\ unlabelled_lines' = out.value
        /\ asm_err' = out.err
        /\ asm_pc' = IF out.err = NoError THEN "unlabelled" ELSE "unlabel_raised"
        /\ UNCHANGED <<source, normalised_program, tokenised_lines, machine_code>>
        /\ UNCHANGED <<simvars, callvars, clivars>>

Generate ==
    LET out == generate_machine_code(unlabelled_lines)
    IN  /\ asm_pc = "unlabelled"
        /\ machine_code' = out.value
        /\ asm_err' = out.err
        /\ asm_pc' = IF out.err = NoError THEN "returned" ELSE "generate_raised"
        /\ UNCHANGED <<source, normalised_program, tokenised_lines, unlabelled_lines>>
        /\ UNCHANGED <<simvars, callvars, clivars>>

NextAsm == Normalise \/ Tokenise \/ Unlabel \/ Generate

SpecAsm == InitAsm /\ [][NextAsm]_vars

----------------------------------------------------------------------------
(* Simulator._decode applied to one instruction value *)

MaxInstruction == 1100
\* A mailbox can hold any integer: stored accumulators are negative or above
\* 999 as well.
Instructions == -MaxInstruction .. MaxInstruction

InitDecode ==
    /\ \E instruction \in Instructions :
          /\ Constructed!1 /\ Constructed!2 /\ Constructed!3
          /\ Constructed!4 /\ Constructed!5
          /\ op = "__init__"
          /\ arg = <<instruction>>
          /\ result = None
          /\ err = NoError
          /\ entry = [halted |-> FALSE, awaiting_input |-> FALSE]
          /\ misuse = FALSE
    /\ CliIdle /\ AsmIdle

Decode ==
    /\ op = "__init__"
    /\ op' = "_decode"
    /\ result' = decode(arg[1])
    /\ UNCHANGED <<simvars, arg, err, entry, misuse, clivars, asmvars>>

NextDecode == Decode

SpecDecode == InitDecode /\ [][NextDecode]_vars

----------------------------------------------------------------------------
(* Claims about the Simulator, checked under Spec *)

\* C1: as long as step has never been called while awaiting_input was true,
\* halted and awaiting_input are never both true between calls.
C1_ExclusiveReadiness == ~misuse => ~(halted /\ awaiting_input)

\* The machine halted on the data cell 12, was restarted by load_program,
\* executed the INP of cell 13 and was then loaded again while it waits.
C1_Witness ==
    /\ ~misuse
    /\ awaiting_input /\ ~halted
    /\ pc = 14
    /\ op = "load_program"

\* C2: step on a halted machine returns nothing and changes no field.
C2_HaltedStepNoOp ==
    [][(halted /\ op' = "step") =>
          /\ result' = None
          /\ err' = NoError
          /\ pc' = pc /\ acc' = acc /\ mailboxes' = mailboxes
          /\ halted' = halted /\ awaiting_input' = awaiting_input]_vars

\* step was called on a halted machine whose pc points at an OUT.
C2_Witness ==
    /\ op = "step" /\ entry.halted
    /\ pc < 100 /\ mailboxes[pc] = 902
    /\ acc # 0

\* C3: after reset, and after construction, every register and mailbox is
\* zero and both flags are clear; a second reset therefore changes nothing.
C3_ResetState ==
    op \in {"reset", "__init__"} =>
        /\ pc = 0 /\ acc = 0
        /\ DOMAIN mailboxes = 0 .. 99
        /\ \A i \in 0 .. 99 : mailboxes[i] = 0
        /\ ~halted /\ ~awaiting_input

\* reset was called on a machine that was halted and awaiting input.
C3_Witness == op = "reset" /\ entry.halted /\ entry.awaiting_input

\* C4: load_program writes the first min(100, len) entries, leaves the other
\* mailboxes, pc, acc and awaiting_input alone, clears halted, never fails.
C4_LoadProgramFrame ==
    [][op' = "load_program" =>
          /\ err' = NoError
          /\ DOMAIN mailboxes' = 0 .. 99
          /\ \A i \in 0 .. 99 :
                mailboxes'[i] = IF i < Len(arg') THEN arg'[i + 1] ELSE mailboxes[i]
          /\ halted' = FALSE
          /\ pc' = pc /\ acc' = acc /\ awaiting_input' = awaiting_input]_vars

\* A three cell program was loaded onto a halted, populated machine: the
\* cells past it still hold the earlier program.
C4_Witness ==
    /\ op = "load_program" /\ Len(arg) = 3
    /\ entry.halted /\ ~halted
    /\ mailboxes[12] = 42 /\ mailboxes[99] = 400
    /\ pc = 13 /\ acc = 999

\* C5: load_input(v) fails and changes nothing when v > 999; otherwise it
\* sets acc to v and clears awaiting_input, touching nothing else.
C5_LoadInput ==
    [][op' = "load_input" =>
          IF arg'[1] > 999
          THEN /\ err' = AssertionError
               /\ pc' = pc /\ acc' = acc /\ mailboxes' = mailboxes
               /\ halted' = halted /\ awaiting_input' = awaiting_input
          ELSE /\ err' = NoError
               /\ acc' = arg'[1]
               /\ awaiting_input' = FALSE
               /\ pc' = pc /\ mailboxes' = mailboxes /\ halted' = halted]_vars

\* A negative value was loaded into a halted machine that was not waiting.
C5_Witness ==
    /\ op = "load_input" /\ arg = <<-1>> /\ err = NoError
    /\ acc = -1
    /\ ~entry.awaiting_input /\ halted

\* C6 as stated: a step of a machine that is not halted returns a value
\* exactly when the mailbox at pc holds 902.  A cell in 90200..90299 has
\* the quotient 902, which is the opcode of OUT as well.
C6_Original ==
    [][(~halted /\ op' = "step") =>
          /\ (result' # None) <=> (pc \in 0 .. 99 /\ mailboxes[pc] = 902)
          /\ result' # None =>
                /\ result' = <<acc>>
                /\ pc' = pc + 1
                /\ acc' = acc /\ mailboxes' = mailboxes
                /\ halted' = halted /\ awaiting_input' = awaiting_input]_vars

\* The mailbox at pc holds a value that is executed as OUT.
FetchesOUT ==
    /\ pc \in 0 .. NumMailboxes - 1
    /\ mailboxes[pc] = 902 \/ mailboxes[pc] \in 90200 .. 90299

\* C6: a step of a machine that is not halted returns a value exactly when
\* the mailbox at pc holds 902 or a value in 90200..90299; the value is acc
\* and only pc changes, by 1.
C6_OutputIffOut ==
    [][(~halted /\ op' = "step") =>
          /\ (result' # None) <=> FetchesOUT
          /\ result' # None =>
                /\ result' = <<acc>>
                /\ pc' = pc + 1
                /\ acc' = acc /\ mailboxes' = mailboxes
                /\ halted' = halted /\ awaiting_input' = awaiting_input]_vars

\* The cell 90250 of Aliased was executed with a negative accumulator, and
\* put it out.
C6_Witness ==
    /\ op = "step" /\ ~entry.halted
    /\ result = <<-1>> /\ acc = -1
    /\ pc = 1 /\ mailboxes[0] = 90250

----------------------------------------------------------------------------
(* Claims about a whole run, checked under SpecCli *)

IsPrefix(a, b) == Len(a) <= Len(b) /\ a = SubSeq(b, 1, Len(a))

CountdownWith3 ==
    /\ program = <<901, 308, 508, 902, 209, 308, 802, 0, 0, 1>>
    /\ inputs = <<3>>

\* C7: the countdown program given the input 3 prints 3, 2, 1, 0 and nothing
\* else, and the run reaches halted.
C7_Countdown ==
    /\ [](CountdownWith3 =>
            /\ IsPrefix(outputs, <<3, 2, 1, 0>>)
            /\ halted => outputs = <<3, 2, 1, 0>>)
    /\ CountdownWith3 ~> (halted /\ cli_pc = "exited")

\* The run has ended: four values printed, the counter cell at -1.
C7_Witness ==
    /\ CountdownWith3
    /\ outputs = <<3, 2, 1, 0>>
    /\ halted /\ cli_pc = "exited"
    /\ acc = -1 /\ mailboxes[8] = -1 /\ pc = 8

----------------------------------------------------------------------------
(* Claims about the Assembler, checked under SpecAsm *)

\* _unlabel_lines has returned.
Unlabelled == asm_pc \in {"unlabelled", "returned", "generate_raised"}
\* _tokenise has returned.
Tokenised == asm_pc \notin {"start", "normalised"}

Lines == 1 .. Len(tokenised_lines)
LabelOf(i) == tokenised_lines[i][1]
MnemonicOf(i) == tokenised_lines[i][2]
OperandOf(i) == tokenised_lines[i][3]

\* The labels the program defines, and the 0-based positions of the lines
\* that define l.
LabelNames == {LabelOf(i) : i \in Lines} \ {None}
DefinedAt(l) == {i - 1 : i \in {j \in Lines : LabelOf(j) = l}}

\* Line i refers to a label: its operand is not a number and it is not DAT.
RefersTo(i, l) == MnemonicOf(i) # DAT /\ OperandOf(i) = l
IsReference(i) ==
    MnemonicOf(i) # DAT /\ OperandOf(i) # None /\ ~isnumeric(OperandOf(i))

Resolved(labels) ==
    /\ Unlabelled =>
          \A l \in labels : \A k \in DefinedAt(l) :
              DefinedAt(l) = {k} =>
                  \A i \in Lines :
                      RefersTo(i, l) => unlabelled_lines[i] = <<MnemonicOf(i), str(k)>>
    /\ asm_pc = "unlabel_raised" =>
          \E i \in Lines : IsReference(i) /\ OperandOf(i) \notin LabelNames

\* C8 as claimed: an operand equal to a label defined once, at position k, on
\* a line that is not DAT is replaced by k, before or after the definition.
C8_Original == Tokenised => Resolved(LabelNames)

\* C8 as amended: the same for every label that is not a number; resolution
\* fails only when some referenced label is defined on no line.
C8_LabelResolution ==
    Tokenised => Resolved({l \in LabelNames : ~isnumeric(l)})

\* BRA L; L DAT 1; BRA L: the reference before the definition and the one
\* after it both became 1.
C8_Witness ==
    /\ asm_pc = "returned"
    /\ tokenised_lines = << <<None, BRA, <<"L">> >>,
                            << <<"L">>, DAT, <<"1">> >>,
                            <<None, BRA, <<"L">> >> >>
    /\ unlabelled_lines = << <<BRA, <<"1">> >>, <<DAT, <<"1">> >>, <<BRA, <<"1">> >> >>
    /\ machine_code = <<601, 1, 601>>

\* C9: a DAT line keeps its operand through label resolution and emits the
\* operand read as an integer literal, 0 when there is none.
C9_DatLiteral ==
    Tokenised =>
        \A i \in Lines :
            MnemonicOf(i) = DAT =>
                /\ Unlabelled => unlabelled_lines[i] = <<DAT, OperandOf(i)>>
                /\ asm_pc = "returned" =>
                      IF OperandOf(i) = None THEN machine_code[i] = 0
                      ELSE /\ int_parses(OperandOf(i))
                           /\ machine_code[i] = int(OperandOf(i))

\* DAT 1000; x DAT; L DAT 1, with the labels x and L defined.
C9_Witness ==
    /\ asm_pc = "returned"
    /\ LabelNames = {<<"x">>, <<"L">>}
    /\ \A i \in Lines : MnemonicOf(i) = DAT
    /\ machine_code = <<1000, 0, 1>>

\* C10: when a line that is not DAT has a non-numeric operand that no line
\* defines as a label, assemble raises in label resolution and returns
\* no machine code.
C10_UndefinedLabelFails ==
    (Tokenised /\ \E i \in Lines : IsReference(i) /\ OperandOf(i) \notin LabelNames) =>
        /\ asm_pc \in {"tokenised", "unlabel_raised"}
        /\ asm_pc = "unlabel_raised" => asm_err = KeyError
        /\ unlabelled_lines = None
        /\ machine_code = None
        /\ assemble(source).err = KeyError

\* BRA L; L DAT 1; STA M: the last line refers to M.
C10_Witness ==
    /\ asm_pc = "unlabel_raised" /\ asm_err = KeyError
    /\ Len(tokenised_lines) = 3
    /\ tokenised_lines[1] = <<None, BRA, <<"L">> >>
    /\ tokenised_lines[3] = <<None, STA, <<"M">> >>
    /\ machine_code = None

\* The lines of the source text, and those that are neither empty nor a
\* comment alone: some character is not whitespace, and the first such
\* character is not the comment delimiter.
SourceLines == split(source, "\n")
IsCode(raw) ==
    \E i \in 1 .. Len(raw) :
        /\ raw[i] \notin Whitespace
        /\ raw[i] # "#"
        /\ \A j \in 1 .. i - 1 : raw[j] \in Whitespace
CodeLines == SelectSeq(SourceLines, IsCode)

NumericOperandsOnly ==
    \A i \in Lines : OperandOf(i) = None \/ isnumeric(OperandOf(i))

\* C11: when every operand is numeric and assemble returns, the machine code
\* has one entry per source line that is neither empty nor a comment, and
\* entry i is what the i-th such line assembles to.
C11_OneEntryPerLine ==
    (asm_pc = "returned" /\ NumericOperandsOnly) =>
        /\ Len(machine_code) = Len(CodeLines)
        /\ \A i \in 1 .. Len(CodeLines) :
              assemble(CodeLines[i]) = Ok(<<machine_code[i]>>)

\* A comment, then "\tout # x", then "DAT 1000": three source lines, two
\* entries.
C11_Witness ==
    /\ asm_pc = "returned" /\ NumericOperandsOnly
    /\ Len(SourceLines) = 3 /\ ~IsCode(SourceLines[1])
    /\ machine_code = <<902, 1000>>

\* C12: every value of the machine code a successful assemble returns is a
\* three-digit decimal value, an integer in 0..999.  The code adds the
\* operand to the opcode, and takes the operand of DAT, without a range check.
C12_ThreeDigits ==
    asm_pc = "returned" =>
        \A i \in 1 .. Len(machine_code) : machine_code[i] \in 0 .. MaxInputValue

\* The normalised lines of more than three tokens, and the source text
\* without them.
IsLong(line) == Len(split_whitespace(line)) > 3
IsShort(line) == ~IsLong(line)
LongLines == {i \in 1 .. Len(normalised_program) : IsLong(normalised_program[i])}
WithoutLongLines == JoinLines(SelectSeq(normalised_program, IsShort))
Finished == asm_pc \in {"unlabel_raised", "generate_raised", "returned"}

\* C20 as stated: a line of more than three tokens is dropped, and assemble
\* gives what it gives for the source without that line.  The code keeps
\* the line as (None, None, None), and code generation fails on it.
C20_Original ==
    (Finished /\ LongLines # {}) =>
        LET rest == assemble(WithoutLongLines)
        IN  IF rest.err = NoError
            THEN asm_pc = "returned" /\ machine_code = rest.value
            ELSE asm_pc # "returned" /\ asm_err = rest.err

\* The first line of more than three tokens, and what code generation gives
\* for the lines before it.
FirstLongLine == SetMin(LongLines)
BeforeFirstLongLine ==
    generate_machine_code(SubSeq(unlabelled_lines, 1, FirstLongLine - 1))
\* Some line that is not DAT refers to a label that no line defines.
UndefinedReference ==
    \E i \in Lines : IsReference(i) /\ OperandOf(i) \notin LabelNames

\* C20: a line of more than three tokens is not dropped: it is tokenised as
\* (None, None, None) and keeps its position, and assemble never returns.
\* Label resolution raises KeyError when a label referred to is undefined
\* anywhere; otherwise code generation raises at the first line that fails,
\* which is the long line, with the KeyError of the mnemonic lookup, unless
\* a line before it fails.  When the other lines assemble without it, the
\* failure is that KeyError.
C20_LongLineKept ==
    (Tokenised /\ LongLines # {}) =>
        /\ Len(tokenised_lines) = Len(normalised_program)
        /\ \A i \in LongLines : tokenised_lines[i] = <<None, None, None>>
        /\ asm_pc # "returned" /\ machine_code = None
        /\ Finished => asm_err \in {KeyError, TypeError, ValueError}
        /\ Finished =>
              IF UndefinedReference
              THEN asm_pc = "unlabel_raised" /\ asm_err = KeyError
              ELSE /\ asm_pc = "generate_raised"
                   /\ asm_err = IF BeforeFirstLongLine.err = NoError
                                THEN KeyError
                                ELSE BeforeFirstLongLine.err
        /\ (Finished /\ assemble(WithoutLongLines).err = NoError) =>
              (asm_pc = "generate_raised" /\ asm_err = KeyError)

\* BRA L; a b c d; L DAT 1: the long line takes mailbox 1, L is resolved to
\* 2, and code generation raises.
C20_Witness ==
    /\ asm_pc = "generate_raised" /\ asm_err = KeyError
    /\ LongLines = {2} /\ BeforeFirstLongLine = Ok(<<602>>)
    /\ tokenised_lines[2] = <<None, None, None>>
    /\ unlabelled_lines[1] = <<BRA, <<"2">> >>
    /\ assemble(WithoutLongLines) = Ok(<<601, 1>>)

----------------------------------------------------------------------------
(* Claims about single instructions, checked under Spec *)

\* The instruction a step fetches is of the family k when the mailbox at pc
\* holds a value of k00..k99; at pc = 100 there is no mailbox.
Fetches(k) == pc \in 0 .. NumMailboxes - 1 /\ mailboxes[pc] \div 100 = k
Operand == mailboxes[pc] % 100
BranchTaken ==
    \/ Fetches(6)
    \/ Fetches(7) /\ acc = 0
    \/ Fetches(8) /\ acc >= 0
IsBranch == Fetches(6) \/ Fetches(7) \/ Fetches(8)

\* C13 as stated: every step of a machine that is not halted sets pc to
\* pc + 1 unless a branch is taken.  A step at pc = 100 raises IndexError and
\* leaves pc at 100.
C13_Original ==
    [][(~halted /\ op' = "step") =>
          /\ pc' = IF BranchTaken THEN Operand ELSE pc + 1
          /\ IsBranch => acc' = acc /\ mailboxes' = mailboxes]_vars

\* C13: a step of a machine that is not halted with pc in 0..99 sets pc to
\* pc + 1, except that BRA sets it to the operand, BRZ does exactly when
\* acc = 0 and BRP exactly when acc >= 0; a branch changes neither acc nor a
\* mailbox.  With pc = 100 the step raises IndexError and changes nothing.
C13_ProgramCounter ==
    [][(~halted /\ op' = "step") =>
          IF pc \in 0 .. NumMailboxes - 1
          THEN /\ err' = NoError
               /\ pc' = IF BranchTaken THEN Operand ELSE pc + 1
               /\ IsBranch => acc' = acc /\ mailboxes' = mailboxes
          ELSE /\ err' = IndexError
               /\ UNCHANGED simvars]_vars

\* The first nine cells hold the start of Tour.
TourLoaded == \A i \in 0 .. 8 : mailboxes[i] = Tour[i + 1]

\* BRP 8 at cell 5 was taken with acc = 0: the only other steps that end at
\* pc = 8 are LDA 9 at cell 7, which would load a value that is not 0 here.
C13_Witness ==
    /\ op = "step" /\ err = NoError /\ ~entry.halted
    /\ TourLoaded /\ mailboxes[9] # 0
    /\ pc = 8 /\ acc = 0

\* C14: ADD sets acc to exactly acc + mailboxes[operand] and SUB to exactly
\* acc - mailboxes[operand]: no wrapping, clamping or truncation.
C14_ExactArithmetic ==
    [][(~halted /\ op' = "step") =>
          /\ Fetches(1) => acc' = acc + mailboxes[Operand]
          /\ Fetches(2) => acc' = acc - mailboxes[Operand]]_vars

\* ADD 9 at cell 2 of Tour has just doubled 999: acc is above 999.
C14_Witness ==
    /\ op = "step" /\ err = NoError /\ ~entry.halted
    /\ TourLoaded /\ mailboxes[9] = MaxInputValue
    /\ pc = 3 /\ acc = 2 * MaxInputValue

\* C15: a step changes the mailboxes only when it executes STA, which sets
\* the mailbox at its operand to acc and leaves acc and every other mailbox
\* alone, even when that mailbox holds the STA itself; LDA sets acc to the
\* mailbox at its operand and changes no mailbox.
C15_StoreAndLoad ==
    [][op' = "step" =>
          /\ mailboxes' # mailboxes => ~halted /\ Fetches(3)
          /\ (~halted /\ Fetches(3)) =>
                /\ mailboxes' = [mailboxes EXCEPT ![Operand] = acc]
                /\ acc' = acc
          /\ (~halted /\ Fetches(5)) =>
                /\ acc' = mailboxes[Operand]
                /\ mailboxes' = mailboxes]_vars

\* STA 0 at cell 0 of SelfStore has just replaced itself by the accumulator.
C15_Witness ==
    /\ op = "step" /\ err = NoError /\ ~entry.halted
    /\ pc = 1 /\ acc = MaxInputValue
    /\ mailboxes[0] = acc
    /\ \A i \in 1 .. NumMailboxes - 1 : mailboxes[i] = 0

FetchesINP == pc \in 0 .. NumMailboxes - 1 /\ mailboxes[pc] = 901

\* C16 as stated: a step that fetches 901 on a machine that is not halted
\* sets awaiting_input, and nothing else does.  A cell in 90100..90199 has
\* the quotient 901, which is the opcode of INP as well.
C16_Original ==
    [][/\ (~halted /\ op' = "step" /\ FetchesINP) =>
              /\ awaiting_input' /\ acc' = 0 /\ pc' = pc + 1
              /\ result' = None /\ err' = NoError
              /\ mailboxes' = mailboxes /\ halted' = halted
       /\ (~awaiting_input /\ awaiting_input') =>
              (op' = "step" /\ ~halted /\ FetchesINP)]_vars

\* The mailbox at pc holds a value that is executed as INP.
FetchesInputRequest ==
    /\ pc \in 0 .. NumMailboxes - 1
    /\ mailboxes[pc] = 901 \/ mailboxes[pc] \in 90100 .. 90199

\* C16: a step of a machine that is not halted that fetches 901, or a
\* value in 90100..90199, sets awaiting_input, zeroes acc, advances pc by 1,
\* returns nothing and leaves mailboxes and halted alone; nothing else makes
\* awaiting_input true.
C16_InputRequest ==
    [][/\ (~halted /\ op' = "step" /\ FetchesInputRequest) =>
              /\ awaiting_input' /\ acc' = 0 /\ pc' = pc + 1
              /\ result' = None /\ err' = NoError
              /\ mailboxes' = mailboxes /\ halted' = halted
       /\ (~awaiting_input /\ awaiting_input') =>
              (op' = "step" /\ ~halted /\ FetchesInputRequest)]_vars

\* The cell 90100 of Aliased was executed by a machine that was not
\* waiting.
C16_Witness ==
    /\ op = "step" /\ err = NoError /\ result = None
    /\ ~entry.halted /\ ~entry.awaiting_input
    /\ mailboxes[1] = 90100 /\ pc = 2
    /\ awaiting_input /\ acc = 0 /\ ~halted

\* The mailbox at pc holds 4xx, or 9xx other than 901 and 902.
FetchesUnmapped ==
    /\ pc \in 0 .. NumMailboxes - 1
    /\ \/ mailboxes[pc] \in 400 .. 499
       \/ mailboxes[pc] \in (900 .. 999) \ {901, 902}

\* C17: a step that fetches an instruction with no mapped opcode only
\* advances pc by 1: no output, no error, and acc, mailboxes, halted and
\* awaiting_input are unchanged.
C17_UnmappedNoOp ==
    [][(~halted /\ op' = "step" /\ FetchesUnmapped) =>
          /\ pc' = pc + 1
          /\ result' = None /\ err' = NoError
          /\ acc' = acc /\ mailboxes' = mailboxes
          /\ halted' = halted /\ awaiting_input' = awaiting_input]_vars

\* 950 at cell 10 of Tour was stepped over with a non-zero accumulator.
C17_Witness ==
    /\ op = "step" /\ err = NoError /\ result = None
    /\ ~entry.halted /\ ~halted
    /\ mailboxes[10] = 950 /\ pc = 11
    /\ acc = -1

\* C19 as stated: pc is in 0..99 in every reachable state.  A step at cell
\* 99 that is not a taken branch leaves pc at 100.
C19_Original == pc \in 0 .. NumMailboxes - 1

\* C19: pc is in 0..100 in every reachable state; with pc = 100 there is no
\* mailbox to fetch, and IndexError is raised by a step there and by nothing
\* else.
C19_ProgramCounterRange ==
    /\ pc \in 0 .. NumMailboxes
    /\ err = IndexError => (op = "step" /\ pc = NumMailboxes /\ ~halted)

\* A step was attempted past the last mailbox.
C19_Witness == op = "step" /\ pc = NumMailboxes /\ err = IndexError

\* C21: halted goes from false to true only by a step that fetches a value
\* in 0..99, and every such step of a machine that is not halted sets it;
\* it goes from true to false only by load_program or reset; a halted
\* machine stays halted under step and load_input.
C21_HaltedLifecycle ==
    [][/\ (~halted /\ halted') => (op' = "step" /\ Fetches(0))
       /\ (~halted /\ op' = "step" /\ Fetches(0)) => halted'
       /\ (halted /\ ~halted') => op' \in {"load_program", "reset"}
       /\ (halted /\ op' \in {"step", "load_input"}) => halted']_vars

\* The data cell 42 at cell 12 of Tour was fetched and halted the machine.
C21_Witness ==
    /\ op = "step" /\ err = NoError
    /\ ~entry.halted /\ halted
    /\ mailboxes[12] = 42 /\ pc = 13

\* C22: the mailbox array has exactly 100 slots in every reachable state,
\* and the operand decode gives for the value of any mailbox, negative and
\* above 999 included, is the index of a mailbox; no step fails for an
\* operand, only for pc = 100.
C22_OperandAddressesMailbox ==
    /\ DOMAIN mailboxes = 0 .. NumMailboxes - 1
    /\ \A k \in DOMAIN mailboxes : decode(mailboxes[k])[2] \in DOMAIN mailboxes
    /\ err = IndexError => pc = NumMailboxes

\* The cell -1 of Unclamped was fetched and stepped over; -150 is next.
C22_Witness ==
    /\ op = "step" /\ err = NoError /\ ~entry.halted /\ ~halted
    /\ mailboxes[0] = -1 /\ mailboxes[1] = -150 /\ mailboxes[2] = 1998
    /\ decode(mailboxes[0]) = <<-1, 99>>
    /\ pc = 1

----------------------------------------------------------------------------
(* Claims about _decode, checked under SpecDecode *)

\* C18 as stated: every instruction value from 900 up decodes to itself as
\* the opcode with operand 0.  The code tests opcode == 9, so 1000 decodes
\* to (10, 0).
C18_Original ==
    op = "_decode" =>
        LET i == arg[1]
        IN  /\ i \in 0 .. 899 => result = <<i \div 100, i % 100>>
            /\ i >= 900 => result = <<i, 0>>

\* C18: decode maps i in 0..899 to (i // 100, i % 100) and i in 900..999 to
\* (i, 0); a value from 1000 up is split like one below 900.
C18_Decode ==
    op = "_decode" =>
        LET i == arg[1]
        IN  /\ i \in 0 .. 899 => result = <<i \div 100, i % 100>>
            /\ i \in 900 .. 999 => result = <<i, 0>>
            /\ i >= 1000 => result = <<i \div 100, i % 100>>

\* 1005, a cell of Tour, decodes to opcode 10 and operand 5.
C18_Witness == op = "_decode" /\ arg = <<1005>> /\ result = <<10, 5>>

====
